---------------------------- MODULE Spec2Model ----------------------------
(***************************************************************************)
(* Handwriting practice: the tested-mode dictation screen                  *)
(* (app/lesson/[lessonId]/dictation.tsx) with its mistake escalation, and  *)
(* the guided stroke tracer (components/writing/StrokeTracer.tsx) with its *)
(* geometric stroke validator.                                             *)
(*                                                                         *)
(* React semantics kept by the model:                                      *)
(*  - a handler reads the values of the render it was created in; a        *)
(*    continuation that runs later (after an await, in a timer) still      *)
(*    reads those values, so every pending continuation carries a closure; *)
(*  - a functional update (setX(prev => ...)) reads the live state;        *)
(*  - the passive effects of a render run before the next event, so they   *)
(*    are part of the action that caused the render.                       *)
(***************************************************************************)
EXTENDS Integers, Sequences, FiniteSets, TLC

(***************************************************************************)
(* Bounds of the model.                                                    *)
(***************************************************************************)
MaxAttempts == 4   \* a check is started only while charAttempts < MaxAttempts
MaxDrawn == 1      \* committed strokes on the tested-mode canvas
MaxAdvance == 1    \* pending 600 ms timers
MaxClear == 1      \* pending 1200 ms timers
MaxFetches == 1    \* glyph fetches in flight
MaxWritten == 2    \* repeated skips past the end of the lesson

(***************************************************************************)
(* Lessons.  A character is a positive number, 0 is the empty string (the  *)
(* currentChar of a word without characters).  A word is its sequence of   *)
(* characters; an item of type 'pinyin' has none.                          *)
(***************************************************************************)
NoChar == 0

Chars == {1, 2, 3, 4}

Lessons ==
    { << <<1, 2>> >>,
      << <<2>>, << >> >>,
      << <<3>> >>,
      << <<4>> >> }

\* The glyph of character c is written c, no glyph (null) is 0.  The glyphs
\* of characters 1 and 2 have 1 and 2 strokes, the glyph of character 3 has
\* 2 strokes and the glyph of character 4 has 1 (data.strokes.length).  Glyph
\* 5 is data without strokes; it is the glyph of no character of the lessons.
NoGlyph == 0

StrokeCount(glyph) ==
    CASE glyph = 3 -> 2
      [] glyph = 4 -> 1
      [] glyph = 5 -> 0
      [] OTHER -> glyph

VARIABLES
    items,          \* lesson.items: the words of the lesson (fixed)
    ds,             \* DictationScreen: its useState cells and useRef cells
    touching,       \* the canvas holds the responder (a gesture is in flight)
    pendingCheck,   \* closures of handleCheck awaiting recognizeImage
    advanceTimers,  \* closures of the pending 600 ms timers (FIFO)
    clearTimers,    \* number of pending 1200 ms timers
    fetches,        \* per character, its loadCharacterData calls in flight
    gs,             \* GuidedDictationScreen: its useState cells and useRef cells
    gfetches,       \* per character, the guided screen's fetches in flight
    tr,             \* the mounted StrokeTracer: its useState cells and pointsRef
    trTouching,     \* the tracer's surface holds the responder
    trTimers,       \* the tracers' pending timers, oldest first
    lc,             \* a call of findErrorCircle: its arguments and its result
    ws,             \* WritingScreen: its useState cells
    wfetches,       \* per character, the writing screen's fetches in flight
    wsTimers,       \* closures of the writing screen's pending 1000 ms timers
    wt,             \* the StrokeTracer the writing screen mounts
    wtTouching,     \* that tracer's surface holds the responder
    wtTimers        \* the pending timers of the writing screen's tracers

dictVars == <<ds, touching, pendingCheck, advanceTimers, clearTimers, fetches>>

guidedVars == <<gs, gfetches, tr, trTouching, trTimers>>

locatorVars == <<lc>>

writingVars == <<ws, wfetches, wsTimers, wt, wtTouching, wtTimers>>

\* What the handlers of the tested-mode screen leave alone, and what those
\* of the guided screen and its tracer leave alone.
nonDictVars == <<items, guidedVars, locatorVars, writingVars>>

nonGuidedVars == <<items, dictVars, locatorVars, writingVars>>

nonLocatorVars == <<items, dictVars, guidedVars, writingVars>>

nonWritingVars == <<items, dictVars, guidedVars, locatorVars>>

vars == <<items, dictVars, guidedVars, locatorVars, writingVars>>

----------------------------------------------------------------------------
(***************************************************************************)
(* Derived values of a render (dictation.tsx 135-139).                     *)
(***************************************************************************)
totalItems == Len(items)

Characters(index) == IF index + 1 \in DOMAIN items THEN items[index + 1] ELSE << >>

CharAt(index, idx) ==
    IF idx + 1 \in DOMAIN Characters(index) THEN Characters(index)[idx + 1] ELSE NoChar

currentChar == CharAt(ds.currentIndex, ds.charIdx)

\* What the handlers created in the current render close over.
Closure ==
    [currentIndex |-> ds.currentIndex, charIdx |-> ds.charIdx,
     writtenChars |-> ds.writtenChars, charAttempts |-> ds.charAttempts,
     postAnimation |-> ds.postAnimation, drawnPaths |-> ds.drawnPaths,
     charData |-> ds.charData]

ClosureChar(k) == CharAt(k.currentIndex, k.charIdx)

\* What advanceChar reads of it.
AdvanceClosure(k) ==
    [currentIndex |-> k.currentIndex, charIdx |-> k.charIdx,
     writtenChars |-> k.writtenChars]

\* dictation.tsx 109-133.  A path is modelled by its number of points: 0 (the
\* empty string), 1, or 2 for every path of more than one point, which is all
\* the screen distinguishes (line 226).  errorCircle is modelled by the kind
\* of circle findErrorCircle gave.
InitialScreen ==
    [currentIndex |-> 0, charIdx |-> 0, phase |-> "writing",
     completedWords |-> << >>, writtenChars |-> << >>,
     showCelebration |-> FALSE, drawnPaths |-> << >>, currentPath |-> 0,
     checking |-> FALSE, feedback |-> "null", charAttempts |-> 0,
     errorPhase |-> "none", lastAttemptPaths |-> << >>, charData |-> NoGlyph,
     animStrokeIdx |-> 0, postAnimation |-> FALSE, errorCircle |-> "null",
     pointsRef |-> 0, afterCelebrationRef |-> "null"]

(***************************************************************************)
(* What the screen's state keeps of findErrorCircle (dictation.tsx 40-80,  *)
(* defined in full further down): null without drawn points, else a        *)
(* circle, around the centroid when there is no glyph.                     *)
(***************************************************************************)
RECURSIVE PointTotal(_)
PointTotal(paths) ==
    IF paths = << >> THEN 0 ELSE Head(paths) + PointTotal(Tail(paths))

errorCircleFor(paths, data) ==
    IF PointTotal(paths) = 0 THEN "null"
    ELSE IF data = NoGlyph THEN "centroid" ELSE "glyph"

(***************************************************************************)
(* The passive effects of a render.  s is the state of the previous        *)
(* render, t the state this render shows (what the effect reads), acc the  *)
(* updates the effects before it have queued.                              *)
(***************************************************************************)
\* dictation.tsx 142-152: reset error state whenever the character changes
ResetEffect(s, t, acc) ==
    IF <<t.charIdx, t.currentIndex>> # <<s.charIdx, s.currentIndex>>
    THEN [acc EXCEPT !.charAttempts = 0, !.errorPhase = "none",
                     !.lastAttemptPaths = << >>, !.charData = NoGlyph,
                     !.animStrokeIdx = 0, !.postAnimation = FALSE,
                     !.errorCircle = "null"]
    ELSE acc

\* dictation.tsx 155-160: refine the circle when charData arrives during hint
RefineEffect(t, dataChanged, acc) ==
    IF /\ dataChanged
       /\ t.errorPhase = "hint" /\ t.charData # NoGlyph /\ Len(t.lastAttemptPaths) > 0
       /\ errorCircleFor(t.lastAttemptPaths, t.charData) # "null"
    THEN [acc EXCEPT !.errorCircle = errorCircleFor(t.lastAttemptPaths, t.charData)]
    ELSE acc

\* dictation.tsx 163-165: clear the circle when leaving the hint phase
CircleEffect(s, t, acc) ==
    IF t.errorPhase # s.errorPhase /\ t.errorPhase # "hint"
    THEN [acc EXCEPT !.errorCircle = "null"]
    ELSE acc

\* The state after the handler's render and the render its effects cause.
Render(s, t, dataChanged) ==
    LET u == CircleEffect(s, t, RefineEffect(t, dataChanged, ResetEffect(s, t, t)))
    IN  CircleEffect(t, u, RefineEffect(u, u.charData # t.charData, u))

\* The canvas and its buttons are rendered (dictation.tsx 423, 556).
CanvasShownIn(s) == s.phase = "writing" /\ s.errorPhase = "none"

CanvasShown == CanvasShownIn(ds)

\* Commit the handler's state t; a gesture in flight ends with its canvas.
Commit(t, dataChanged) ==
    /\ ds' = Render(ds, t, dataChanged)
    /\ touching' = (touching /\ CanvasShownIn(ds'))

----------------------------------------------------------------------------
(***************************************************************************)
(* Handlers of the dictation screen.                                       *)
(***************************************************************************)
\* dictation.tsx 257-292, called from a render with closure k.  The direct
\* updates use k, the functional ones the live state s.
advanceChar(s, k, confirmedChar, skipped) ==
    LET t == [s EXCEPT !.drawnPaths = << >>, !.currentPath = 0,
                       !.errorPhase = "none", !.charAttempts = 0,
                       !.writtenChars = Append(k.writtenChars, confirmedChar)]
        more == k.currentIndex + 1 < totalItems
    IN  IF k.charIdx + 1 < Len(Characters(k.currentIndex))
        THEN [t EXCEPT !.charIdx = k.charIdx + 1]
        ELSE IF k.currentIndex >= totalItems
        THEN t      \* currentItem is undefined: line 271 throws
        ELSE LET w == [t EXCEPT !.completedWords = Append(s.completedWords, k.currentIndex),
                                !.writtenChars = << >>, !.charIdx = 0]
             IN  IF ~skipped
                 THEN [w EXCEPT !.afterCelebrationRef = IF more THEN "next" ELSE "complete",
                                !.showCelebration = TRUE]
                 ELSE IF more
                      THEN [w EXCEPT !.currentIndex = s.currentIndex + 1]
                      ELSE [w EXCEPT !.phase = "complete"]

\* recognized.includes(currentChar): every string includes the empty string.
\* recognized is 0 (''), a character, or NoMatch (some other text).
NoMatch == -1

Includes(recognized, char) == char = NoChar \/ recognized = char

\* dictation.tsx 328-354: what an incorrect judgment leads to
Escalation(newAttempts, post) ==
    IF newAttempts >= 3 /\ ~post THEN "animation"
    ELSE IF newAttempts >= 2 /\ ~post THEN "hint"
    ELSE "flash"

\* dictation.tsx 330-333: the 3rd wrong attempt shows the stroke animation
EnterAnimation(t) ==
    [t EXCEPT !.drawnPaths = << >>, !.currentPath = 0,
              !.errorPhase = "animation", !.animStrokeIdx = 0]

\* A hint branch that leaves the judged strokes on the canvas.
EnterHintKeepingStrokes(t, k) ==
    [t EXCEPT !.errorCircle = errorCircleFor(k.drawnPaths, k.charData),
              !.errorPhase = "hint"]

\* dictation.tsx 339-342: the 2nd wrong attempt shows the hint
EnterHint(t, k) ==
    [t EXCEPT !.errorCircle = errorCircleFor(k.drawnPaths, k.charData),
              !.drawnPaths = << >>, !.currentPath = 0, !.errorPhase = "hint"]

\* dictation.tsx 313-354: the continuation of handleCheck, with closure k,
\* on the state s.
Judgment(s, k, recognized) ==
    IF Includes(recognized, ClosureChar(k))
    THEN /\ Commit([s EXCEPT !.feedback = "correct"], FALSE)
         /\ advanceTimers' = Append(advanceTimers, AdvanceClosure(k))
         /\ UNCHANGED <<clearTimers, fetches>>
    ELSE LET n == k.charAttempts + 1
             t == [s EXCEPT !.charAttempts = n, !.lastAttemptPaths = k.drawnPaths]
             load == IF k.charData = NoGlyph
                     THEN [fetches EXCEPT ![ClosureChar(k)] = @ + 1] ELSE fetches
         IN  CASE Escalation(n, k.postAnimation) = "animation" ->
                    /\ Commit(EnterAnimation(t), FALSE)
                    /\ fetches' = load
                    /\ UNCHANGED <<advanceTimers, clearTimers>>
               [] Escalation(n, k.postAnimation) = "hint" ->
                    /\ Commit(EnterHint(t, k), FALSE)
                    /\ fetches' = load
                    /\ UNCHANGED <<advanceTimers, clearTimers>>
               [] OTHER ->
                    /\ Commit([t EXCEPT !.feedback = "incorrect"], FALSE)
                    /\ clearTimers' = clearTimers + 1
                    /\ UNCHANGED <<advanceTimers, fetches>>

RECURSIVE Sum(_, _)
Sum(f, S) ==
    IF S = {} THEN 0 ELSE LET x == CHOOSE x \in S : TRUE IN f[x] + Sum(f, S \ {x})

InFlight == Sum(fetches, Chars)

\* Room for what one more check may leave pending, with at most maxFetches
\* fetches in flight.
CheckRoomWith(maxFetches) ==
    /\ ds.charAttempts < MaxAttempts
    /\ Len(advanceTimers) < MaxAdvance
    /\ clearTimers < MaxClear
    /\ InFlight < maxFetches
    /\ Len(ds.completedWords) < totalItems + MaxAdvance
    /\ Len(ds.writtenChars) < MaxWritten

CheckRoom == CheckRoomWith(MaxFetches)

\* One more fetch may be in flight: a glyph asked for earlier can arrive
\* after the glyph of a later character.
LateLoadRoom == CheckRoomWith(MaxFetches + 1)

\* dictation.tsx 295-305: handleCheck up to the await; the attempt is
\* rendered to an image and sent to the recognizer.
CheckStartIn(room) ==
    /\ CanvasShown /\ Len(ds.drawnPaths) > 0 /\ ~ds.checking
    /\ room
    /\ Commit([ds EXCEPT !.checking = TRUE, !.feedback = "null"], FALSE)
    /\ pendingCheck' = Append(pendingCheck, Closure)
    /\ UNCHANGED <<nonDictVars, advanceTimers, clearTimers, fetches>>

CheckStart == CheckStartIn(CheckRoom)

CheckStartLateLoad == CheckStartIn(LateLoadRoom)

\* dictation.tsx 295-355 when canvasToBase64 returns '' (82-89): nothing is
\* awaited, recognized stays ''.
CheckUnrenderedIn(room) ==
    /\ CanvasShown /\ Len(ds.drawnPaths) > 0 /\ ~ds.checking
    /\ room
    /\ Judgment([ds EXCEPT !.checking = FALSE, !.feedback = "null"], Closure, 0)
    /\ UNCHANGED <<nonDictVars, pendingCheck>>

CheckUnrendered == CheckUnrenderedIn(CheckRoom)

CheckUnrenderedLateLoad == CheckUnrenderedIn(LateLoadRoom)

\* What recognizeImage can do: throw, or return a text.
RecognizerOutcomes == {"throw", "empty", "other", "match"}

Recognized(outcome, k) ==
    CASE outcome = "match" -> ClosureChar(k)
      [] outcome = "other" -> NoMatch
      [] OTHER -> 0

\* dictation.tsx 305-355: recognizeImage settles
CheckSettleWith(outcome) ==
    /\ pendingCheck # << >>
    /\ Judgment([ds EXCEPT !.checking = FALSE], Head(pendingCheck),
                Recognized(outcome, Head(pendingCheck)))
    /\ pendingCheck' = Tail(pendingCheck)
    /\ UNCHANGED <<nonDictVars>>

CheckSettle == \E outcome \in RecognizerOutcomes : CheckSettleWith(outcome)

\* dictation.tsx 315-318: the 600 ms timer after a correct judgment
AdvanceTimer ==
    /\ advanceTimers # << >>
    /\ LET k == Head(advanceTimers)
       IN  Commit(advanceChar([ds EXCEPT !.feedback = "null"], k, ClosureChar(k), FALSE),
                  FALSE)
    /\ advanceTimers' = Tail(advanceTimers)
    /\ UNCHANGED <<nonDictVars, pendingCheck, clearTimers, fetches>>

\* dictation.tsx 349-353: the 1200 ms timer after a flashed judgment
ClearTimer ==
    /\ clearTimers > 0
    /\ Commit([ds EXCEPT !.feedback = "null", !.drawnPaths = << >>,
                         !.currentPath = 0], FALSE)
    /\ clearTimers' = clearTimers - 1
    /\ UNCHANGED <<nonDictVars, pendingCheck, advanceTimers, fetches>>

\* dictation.tsx 556, 614-616: the Skip button is in the canvas's button row
SkipShown == CanvasShown

\* dictation.tsx 358-361
handleSkip ==
    /\ SkipShown
    /\ Len(ds.writtenChars) < MaxWritten
    /\ Commit(advanceChar([ds EXCEPT !.feedback = "null"], Closure, currentChar, TRUE),
              FALSE)
    /\ UNCHANGED <<nonDictVars, pendingCheck, advanceTimers, clearTimers, fetches>>

\* dictation.tsx 250-253
handleClear ==
    /\ CanvasShown
    /\ Commit([ds EXCEPT !.drawnPaths = << >>, !.currentPath = 0], FALSE)
    /\ UNCHANGED <<nonDictVars, pendingCheck, advanceTimers, clearTimers, fetches>>

\* A hint dismissal that also forgets the wrong attempts.
DismissHintForgettingAttempts ==
    /\ ds.phase = "writing" /\ ds.errorPhase = "hint"
    /\ Commit([ds EXCEPT !.errorPhase = "none", !.charAttempts = 0], FALSE)
    /\ UNCHANGED <<nonDictVars, pendingCheck, advanceTimers, clearTimers, fetches>>

\* dictation.tsx 363-365, its button at 502
handleDismissHint ==
    /\ ds.phase = "writing" /\ ds.errorPhase = "hint"
    /\ Commit([ds EXCEPT !.errorPhase = "none"], FALSE)
    /\ UNCHANGED <<nonDictVars, pendingCheck, advanceTimers, clearTimers, fetches>>

\* dictation.tsx 392: animDone
animDone(s) == s.charData # NoGlyph /\ s.animStrokeIdx >= StrokeCount(s.charData)

\* dictation.tsx 367-372, its button at 547-551
handleDismissAnimation ==
    /\ ds.phase = "writing" /\ ds.errorPhase = "animation" /\ animDone(ds)
    /\ Commit([ds EXCEPT !.postAnimation = TRUE, !.errorPhase = "none",
                         !.animStrokeIdx = 0, !.charData = NoGlyph], TRUE)
    /\ UNCHANGED <<nonDictVars, pendingCheck, advanceTimers, clearTimers, fetches>>

\* dictation.tsx 197-205: the 800 ms timer of the stroke animation
AnimationTick ==
    /\ ds.errorPhase = "animation" /\ ds.charData # NoGlyph
    /\ ds.animStrokeIdx < StrokeCount(ds.charData)
    /\ Commit([ds EXCEPT !.animStrokeIdx = ds.animStrokeIdx + 1], FALSE)
    /\ UNCHANGED <<nonDictVars, pendingCheck, advanceTimers, clearTimers, fetches>>

\* dictation.tsx 374-379, called by CelebrationRoll when it is done
handleCelebrationDone ==
    /\ ds.showCelebration
    /\ LET t == [ds EXCEPT !.showCelebration = FALSE, !.afterCelebrationRef = "null"]
       IN  Commit(CASE ds.afterCelebrationRef = "next" ->
                         [t EXCEPT !.currentIndex = ds.currentIndex + 1]
                    [] ds.afterCelebrationRef = "complete" ->
                         [t EXCEPT !.phase = "complete"]
                    [] OTHER -> t, FALSE)
    /\ UNCHANGED <<nonDictVars, pendingCheck, advanceTimers, clearTimers, fetches>>

\* characterLoader.ts 12-36 and dictation.tsx 335, 344: a fetch settles, in
\* any order, with the glyph of its character or with null.
FetchSettle ==
    \E c \in Chars, ok \in BOOLEAN :
        /\ fetches[c] > 0
        /\ IF ok
           THEN Commit([ds EXCEPT !.charData = c], TRUE)
           ELSE UNCHANGED <<ds, touching>>
        /\ fetches' = [fetches EXCEPT ![c] = @ - 1]
        /\ UNCHANGED <<nonDictVars, pendingCheck, advanceTimers, clearTimers>>

\* dictation.tsx 212-216
onPanResponderGrant ==
    /\ CanvasShown /\ ~touching
    /\ Len(ds.drawnPaths) < MaxDrawn
    /\ ds' = [ds EXCEPT !.pointsRef = 1, !.currentPath = 1]
    /\ touching' = TRUE
    /\ UNCHANGED <<nonDictVars, pendingCheck, advanceTimers, clearTimers, fetches>>

\* dictation.tsx 217-224
onPanResponderMove ==
    /\ CanvasShown /\ touching
    /\ LET n == IF ds.pointsRef < 2 THEN ds.pointsRef + 1 ELSE 2
       IN  ds' = [ds EXCEPT !.pointsRef = n, !.currentPath = n]
    /\ UNCHANGED <<nonDictVars, touching, pendingCheck, advanceTimers, clearTimers, fetches>>

\* dictation.tsx 225-234
onPanResponderRelease ==
    /\ CanvasShown /\ touching
    /\ ds' = [ds EXCEPT !.drawnPaths = IF ds.pointsRef > 1
                                       THEN Append(ds.drawnPaths, ds.pointsRef)
                                       ELSE ds.drawnPaths,
                        !.currentPath = 0, !.pointsRef = 0]
    /\ touching' = FALSE
    /\ UNCHANGED <<nonDictVars, pendingCheck, advanceTimers, clearTimers, fetches>>

----------------------------------------------------------------------------
(***************************************************************************)
(* The stroke validator (StrokeTracer.tsx 345-453).  Surface coordinates   *)
(* are pixels.  The touch points and the medians below lie on whole        *)
(* pixels, so every distance the validator compares is the square root of  *)
(* an integer and every threshold test is decided exactly on the squares.  *)
(***************************************************************************)
\* constants/layout.ts 9, on a tablet
WRITING_GRID_SIZE == 320

\* constants/layout.ts 9 on a phone 320 wide: Math.min(width - 64, 300)
PHONE_GRID_SIZE == 256

\* StrokeTracer.tsx 255, 263: no screen passes hideGuide
hideGuide == FALSE

\* The points a gesture may pass through (locationX, locationY).
TouchPoints ==
    { <<100, 100>>, <<140, 100>>, <<180, 100>>, <<260, 100>>,
      <<145, 65>>, <<205, 130>> }

\* The gestures a user draws on the tracer, as the points reported from the
\* grant to the last move; a gesture may be released after any of its points.
\* They are: along the long stroke, in three points and in two; a press
\* without movement; against the direction of the short strokes; askew;
\* from the far end; and to the far end and half the way back.
Gestures ==
    { << <<100, 100>>, <<180, 100>>, <<260, 100>> >>,
      << <<100, 100>>, <<260, 100>> >>,
      << <<100, 100>>, <<100, 100>> >>,
      << <<140, 100>>, <<100, 100>> >>,
      << <<145, 65>>, <<205, 130>> >>,
      << <<260, 100>>, <<100, 100>> >>,
      << <<140, 100>>, <<260, 100>>, <<180, 100>> >> }

\* pts are the first points of a gesture.
Drawn(pts) ==
    \E g \in Gestures : Len(pts) <= Len(g) /\ SubSeq(g, 1, Len(pts)) = pts

\* data.medians, in glyph coordinates (0..1024, y upwards from 900): glyph 1
\* is one long horizontal stroke given by its two ends; glyph 2 is the same
\* stroke given by three points, then a stroke of 20 pixels.  The data of
\* glyph 3 are incomplete (the loader returns the parsed JSON as it is): its
\* first median is a single point and its second median is missing.  Glyph 4
\* is one short stroke of 30 pixels.
Medians(glyph) ==
    CASE glyph = 1 -> << << <<320, 580>>, <<832, 580>> >> >>
      [] glyph = 2 -> << << <<320, 580>>, <<576, 580>>, <<832, 580>> >>,
                         << <<448, 580>>, <<512, 580>> >> >>
      [] glyph = 4 -> << << <<448, 580>>, <<544, 580>> >> >>
      [] OTHER -> << << <<320, 580>> >> >>

\* StrokeTracer.tsx 276
totalStrokes(data) == IF data = NoGlyph THEN 0 ELSE StrokeCount(data)

\* StrokeTracer.tsx 367-374, 429-432: a median point on a surface of the
\* given grid size
ToSurfaceAt(gridSize, m) ==
    << (m[1] * gridSize) \div 1024, ((900 - m[2]) * gridSize) \div 1024 >>

ToSurface(m) == ToSurfaceAt(WRITING_GRID_SIZE, m)

Sq(x) == x * x

\* The square of the distance of two surface points.
Dist2(p, q) == Sq(p[1] - q[1]) + Sq(p[2] - q[2])

RECURSIVE SqrtBetween(_, _, _)
SqrtBetween(n, lo, hi) ==
    IF lo = hi THEN lo
    ELSE LET mid == (lo + hi + 1) \div 2
         IN  IF mid * mid <= n THEN SqrtBetween(n, mid, hi)
             ELSE SqrtBetween(n, lo, mid - 1)

\* Math.sqrt of a squared length, in hundredths of a pixel, rounded down and
\* rounded up.
SqrtLow(n2) == SqrtBetween(10000 * n2, 0, 46340)

SqrtHigh(n2) == IF Sq(SqrtLow(n2)) = 10000 * n2 THEN SqrtLow(n2) ELSE SqrtLow(n2) + 1

\* StrokeTracer.tsx 417-422: totalPathLen, rounded down and rounded up
RECURSIVE PathLow(_)
PathLow(pts) ==
    IF Len(pts) < 2 THEN 0
    ELSE SqrtLow(Dist2(pts[1], pts[2])) + PathLow(Tail(pts))

RECURSIVE PathHigh(_)
PathHigh(pts) ==
    IF Len(pts) < 2 THEN 0
    ELSE SqrtHigh(Dist2(pts[1], pts[2])) + PathHigh(Tail(pts))

\* StrokeTracer.tsx 423: drawnLen > 5 && totalPathLen / drawnLen > 2.0
TooSinuous(pts) ==
    LET d2 == Dist2(pts[1], pts[Len(pts)])
    IN  d2 > 25 /\ PathLow(pts) > 2 * SqrtHigh(d2)

\* StrokeTracer.tsx 428-444: some drawn point is farther than 22% of the grid
\* from every median point
DeviatesAt(gridSize, pts, median) ==
    \E i \in DOMAIN pts :
        \A j \in DOMAIN median :
            2500 * Dist2(pts[i], ToSurfaceAt(gridSize, median[j])) > 121 * Sq(gridSize)

\* StrokeTracer.tsx 447-448: dot / (drawnLen * expectedLen + 0.001) > 0.707,
\* for the dot product x and q = (drawnLen * expectedLen)^2.  It says
\* 1000000 x^2 - 1414 x >= 499849 q with x > 0, which is evaluated in parts
\* that fit 32 bits.
DirectionOk(x, q) ==
    /\ x >= 1
    /\ LET whole == Sq(x) \div 499849
           rest == Sq(x) % 499849
       IN  (Sq(x) - (q - Sq(x))) + 302 * whole
               + ((302 * rest - 1414 * x) \div 499849) >= 0

\* StrokeTracer.tsx 359: data.medians[strokeIdxRef.current], the empty
\* sequence when there is none (undefined)
expectedMedianOf(data, strokeIdx) ==
    IF strokeIdx + 1 \in DOMAIN Medians(data) THEN Medians(data)[strokeIdx + 1]
    ELSE << >>

\* A test for a missing reference that lets a median of one point through.
NoReferenceOnlyWhenAbsent(median) == median = << >>

\* StrokeTracer.tsx 362: !expectedMedian || expectedMedian.length < 2
NoReference(median) == Len(median) < 2

\* StrokeTracer.tsx 345-453: "ignored" when it returns without a verdict,
\* "accept" when it calls handleCorrect, "reject" when it calls
\* handleIncorrect; gridSize is the device's WRITING_GRID_SIZE
validateStrokeAt(gridSize, data, strokeIdx, pts) ==
    IF data = NoGlyph \/ Len(pts) < 2 THEN "ignored"
    ELSE IF hideGuide THEN "accept"
    ELSE IF NoReference(expectedMedianOf(data, strokeIdx)) THEN "accept"
    ELSE LET median == expectedMedianOf(data, strokeIdx)
             expectedStart == ToSurfaceAt(gridSize, median[1])
             expectedEnd == ToSurfaceAt(gridSize, median[Len(median)])
             expected2 == Dist2(expectedStart, expectedEnd)
             drawnStart == pts[1]
             drawnEnd == pts[Len(pts)]
             drawn2 == Dist2(drawnStart, drawnEnd)
             startFar == 2500 * Dist2(drawnStart, expectedStart) > 81 * Sq(gridSize)
             dot == (drawnEnd[1] - drawnStart[1]) * (expectedEnd[1] - expectedStart[1])
                  + (drawnEnd[2] - drawnStart[2]) * (expectedEnd[2] - expectedStart[2])
         IN  IF expected2 < 625
             THEN IF startFar THEN "reject" ELSE "accept"
             ELSE IF startFar THEN "reject"
             ELSE IF 16 * drawn2 < expected2 THEN "reject"
             ELSE IF 25 * Dist2(drawnEnd, expectedEnd) > Sq(gridSize) THEN "reject"
             ELSE IF TooSinuous(pts) THEN "reject"
             ELSE IF DeviatesAt(gridSize, pts, median) THEN "reject"
             ELSE IF DirectionOk(dot, drawn2 * expected2) THEN "accept"
             ELSE "reject"

\* The validator of the running device.
validateStroke(data, strokeIdx, pts) ==
    validateStrokeAt(WRITING_GRID_SIZE, data, strokeIdx, pts)

----------------------------------------------------------------------------
(***************************************************************************)
(* The error locator of the tested-mode screen (dictation.tsx 20-80).  A   *)
(* path string is modelled by the numbers in it, in their order, which is  *)
(* all the locator reads of it.  Distances are compared on their squares;  *)
(* a circle holds its centre as two fractions <<numerator, denominator>>    *)
(* and its radius r as 10000 r^2.                                          *)
(***************************************************************************)
MaxLocatorPaths == 2   \* strokes on the canvas when the locator is called

\* data.strokes: the outline of each stroke, in glyph coordinates.  The
\* strokes of glyph 3 are empty strings.
Strokes(glyph) ==
    CASE glyph = 1 -> << <<320, 596, 832, 596, 832, 564, 320, 564>> >>
      [] glyph = 2 -> << <<320, 596, 832, 596, 832, 564, 320, 564>>,
                         <<448, 596, 512, 596, 512, 564, 448, 564>> >>
      [] glyph = 3 -> << << >>, << >> >>
      [] glyph = 4 -> << <<448, 596, 544, 596, 544, 564, 448, 564>> >>
      [] OTHER -> << >>

\* The glyph data the locator may be given.
LocatorGlyphs == {NoGlyph, 1, 2, 3, 4, 5}

GridSizes == {WRITING_GRID_SIZE, PHONE_GRID_SIZE}

\* dictation.tsx 225-231: the path strings of committed strokes
\* ('M100,100 L260,100' and so on)
CanvasPaths ==
    { <<100, 100, 260, 100>>,
      <<100, 100, 100, 200>>,
      <<100, 250, 250, 250>>,
      <<100, 100, 100, 120>>,
      <<100, 100, 100, 130>> }

\* dictation.tsx 21-28: the numbers of the string, taken in pairs; a last
\* number without a partner is dropped
RECURSIVE extractPathPoints(_)
extractPathPoints(d) ==
    IF Len(d) < 2 THEN << >>
    ELSE << <<d[1], d[2]>> >> \o extractPathPoints(SubSeq(d, 3, Len(d)))

\* dictation.tsx 31-33
charToCanvas(x, y, gridSize) ==
    << (x * gridSize) \div 1024, ((900 - y) * gridSize) \div 1024 >>

\* dictation.tsx 45-46
RECURSIVE drawnPointsOf(_)
drawnPointsOf(drawnPaths) ==
    IF drawnPaths = << >> THEN << >>
    ELSE extractPathPoints(Head(drawnPaths)) \o drawnPointsOf(Tail(drawnPaths))

\* dictation.tsx 57-60
RECURSIVE correctPointsOf(_, _)
correctPointsOf(strokes, gridSize) ==
    IF strokes = << >> THEN << >>
    ELSE LET pts == extractPathPoints(Head(strokes))
         IN  [i \in DOMAIN pts |-> charToCanvas(pts[i][1], pts[i][2], gridSize)]
                 \o correctPointsOf(Tail(strokes), gridSize)

RECURSIVE SumOf(_, _)
SumOf(pts, coord) ==
    IF pts = << >> THEN 0 ELSE Head(pts)[coord] + SumOf(Tail(pts), coord)

\* The result null.
NullCircle == [found |-> FALSE, cx |-> <<0, 1>>, cy |-> <<0, 1>>, r2 |-> 0]

\* A centroid whose circle has no radius.
centroidWithoutRadius(drawn, gridSize) ==
    [found |-> TRUE, cx |-> <<SumOf(drawn, 1), Len(drawn)>>,
     cy |-> <<SumOf(drawn, 2), Len(drawn)>>, r2 |-> 0]

\* dictation.tsx 49-53: r = gridSize * 0.28
centroid(drawn, gridSize) ==
    [found |-> TRUE, cx |-> <<SumOf(drawn, 1), Len(drawn)>>,
     cy |-> <<SumOf(drawn, 2), Len(drawn)>>, r2 |-> 784 * Sq(gridSize)]

\* dictation.tsx 66-71: the smallest (squared) distance from dp to a correct
\* point
RECURSIVE minDist2(_, _)
minDist2(dp, correct) ==
    IF Len(correct) = 1 THEN Dist2(dp, correct[1])
    ELSE LET rest == minDist2(dp, Tail(correct))
         IN  IF Dist2(dp, Head(correct)) < rest THEN Dist2(dp, Head(correct)) ELSE rest

\* dictation.tsx 63-73: the loop over the drawn points; best holds maxDist
\* (squared) and worstPt
RECURSIVE worstOf(_, _, _)
worstOf(drawn, correct, best) ==
    IF drawn = << >> THEN best
    ELSE LET minD2 == minDist2(Head(drawn), correct)
         IN  worstOf(Tail(drawn), correct,
                     IF minD2 > best.maxDist2
                     THEN [maxDist2 |-> minD2, worstPt |-> Head(drawn)]
                     ELSE best)

\* An error region that is clear only beyond 10% of the grid size.
clearErrorBeyondTenth(maxDist2, gridSize) == 100 * maxDist2 > Sq(gridSize)

\* dictation.tsx 76: maxDist > gridSize * 0.05
clearError(maxDist2, gridSize) == 400 * maxDist2 > Sq(gridSize)

Max(a, b) == IF a >= b THEN a ELSE b

\* dictation.tsx 40-80
findErrorCircle(drawnPaths, data, gridSize) ==
    LET drawn == drawnPointsOf(drawnPaths)
    IN  IF Len(drawn) = 0 THEN NullCircle
        ELSE IF data = NoGlyph \/ Len(Strokes(data)) = 0 THEN centroid(drawn, gridSize)
        ELSE LET correct == correctPointsOf(Strokes(data), gridSize)
             IN  IF Len(correct) = 0 THEN centroid(drawn, gridSize)
                 ELSE LET w == worstOf(drawn, correct,
                                       [maxDist2 |-> 0, worstPt |-> drawn[1]])
                      IN  IF clearError(w.maxDist2, gridSize)
                          THEN [found |-> TRUE, cx |-> <<w.worstPt[1], 1>>,
                                cy |-> <<w.worstPt[2], 1>>,
                                r2 |-> Max(484 * Sq(gridSize), 3025 * w.maxDist2)]
                          ELSE centroid(drawn, gridSize)

\* No call yet.
InitialLocator ==
    [drawnPaths |-> << >>, data |-> NoGlyph, gridSize |-> WRITING_GRID_SIZE,
     called |-> FALSE, circle |-> NullCircle]

\* dictation.tsx 225-231: a stroke is committed to the canvas
LocatorStroke ==
    /\ Len(lc.drawnPaths) < MaxLocatorPaths
    /\ \E d \in CanvasPaths :
          lc' = [InitialLocator EXCEPT !.drawnPaths = Append(lc.drawnPaths, d)]
    /\ UNCHANGED <<nonLocatorVars>>

\* dictation.tsx 250-253: the canvas is cleared
LocatorClear ==
    /\ lc.drawnPaths # << >>
    /\ lc' = InitialLocator
    /\ UNCHANGED <<nonLocatorVars>>

\* dictation.tsx 157, 339: findErrorCircle is called on the strokes of the
\* canvas, with the glyph data at hand and the grid size of the device
LocatorCall ==
    /\ \E data \in LocatorGlyphs, gridSize \in GridSizes :
          lc' = [lc EXCEPT !.data = data, !.gridSize = gridSize, !.called = TRUE,
                           !.circle = findErrorCircle(lc.drawnPaths, data, gridSize)]
    /\ UNCHANGED <<nonLocatorVars>>

----------------------------------------------------------------------------
(***************************************************************************)
(* The guided dictation screen (guided-dictation.tsx) and the StrokeTracer *)
(* it mounts with suppressCelebration (guided-dictation.tsx 199-205).      *)
(***************************************************************************)
MaxCommitted == 2   \* a gesture starts only while fewer strokes are committed
MaxTracerTimers == 2  \* a gesture starts only while fewer timers are pending

\* guided-dictation.tsx 20-30
InitialGuided ==
    [currentIndex |-> 0, charIdx |-> 0, phase |-> "writing",
     completedWords |-> << >>, writtenChars |-> << >>,
     showCelebration |-> FALSE, charData |-> NoGlyph, loading |-> TRUE,
     tracerKey |-> 0, afterCelebrationRef |-> "null"]

guidedChar == CharAt(gs.currentIndex, gs.charIdx)

\* What handleCharComplete closes over.
GuidedClosure(s) ==
    [currentIndex |-> s.currentIndex, charIdx |-> s.charIdx,
     writtenChars |-> s.writtenChars]

\* StrokeTracer.tsx 264-270.  A committed stroke is modelled by the index of
\* the median it was validated against, currentPath by its number of points.
\* strokeIdxRef and charDataRef are set in every render (300-301), so they
\* are currentStrokeIdx and the characterData prop.  Nothing reads pointsRef
\* between a release and the next grant, which overwrites it, so the model
\* empties it at the release.
InitialTracer ==
    [currentStrokeIdx |-> 0, drawnStrokes |-> << >>, currentPath |-> 0,
     feedback |-> "null", showCelebration |-> FALSE, pointsRef |-> << >>]

\* guided-dictation.tsx 196-206: the tracer is rendered
TracerMountedIn(s) == s.phase = "writing" /\ ~s.loading

TracerMounted == TracerMountedIn(gs)

\* StrokeTracer.tsx 482-490, 507: the surface with the pan handlers is
\* rendered only when there is glyph data
PanHandlersAttached == TracerMounted /\ gs.charData # NoGlyph

\* A pending timer of a tracer.  While its tracer is mounted it reads the
\* tracer's refs; once the tracer is unmounted the refs keep the values of
\* its last render: strokeIdx, total and the parent's closure k.
LiveTimer(kind) ==
    [kind |-> kind, live |-> TRUE, strokeIdx |-> 0, total |-> 0,
     k |-> GuidedClosure(InitialGuided)]

Freeze(timer) ==
    IF timer.live
    THEN [timer EXCEPT !.live = FALSE, !.strokeIdx = tr.currentStrokeIdx,
                       !.total = totalStrokes(gs.charData), !.k = GuidedClosure(gs)]
    ELSE timer

\* The timer of an unmounted tracer changes nothing (its state updates are
\* dropped) unless it leads to onComplete: StrokeTracer.tsx 313-320, 339-342.
Idle(timer) ==
    /\ ~timer.live
    /\ \/ timer.kind = "clear"
       \/ timer.kind = "advance" /\ timer.strokeIdx + 1 < timer.total

\* The timers left when the mounted tracer is unmounted; the idle ones are
\* left out.
FreezeAll(timers) ==
    SelectSeq([i \in DOMAIN timers |-> Freeze(timers[i])], LAMBDA timer : ~Idle(timer))

\* guided-dictation.tsx 39-47: the effect on [currentChar, tracerKey], run
\* after the render of t that follows the render of s.
LoadEffectRuns(s, t) ==
    /\ \/ t.tracerKey # s.tracerKey
       \/ CharAt(t.currentIndex, t.charIdx) # CharAt(s.currentIndex, s.charIdx)
    /\ CharAt(t.currentIndex, t.charIdx) # NoChar

\* Commit the screen state t reached by a handler, the tracer state trNext
\* and the timers; then the load effect runs.  A tracer whose key changed or
\* that is no longer rendered is unmounted, and a new one starts afresh.
GuidedCommit(t, trNext, timersNext) ==
    LET run == LoadEffectRuns(gs, t)
        u == IF run THEN [t EXCEPT !.charData = NoGlyph, !.loading = TRUE] ELSE t
        kept == /\ TracerMounted /\ TracerMountedIn(u)
                /\ u.tracerKey = gs.tracerKey
    IN  /\ gs' = u
        /\ gfetches' = IF run
                       THEN [gfetches EXCEPT ![CharAt(t.currentIndex, t.charIdx)] = @ + 1]
                       ELSE gfetches
        /\ tr' = IF kept THEN trNext ELSE InitialTracer
        /\ trTouching' = (kept /\ trTouching /\ u.charData # NoGlyph)
        /\ trTimers' = IF kept \/ ~TracerMounted THEN timersNext
                       ELSE FreezeAll(timersNext)

GuidedInFlight == Sum(gfetches, Chars)

\* Room for what one more change of character may leave pending.
GuidedRoom ==
    /\ GuidedInFlight < MaxFetches
    /\ Len(gs.writtenChars) < MaxWritten
    /\ Len(gs.completedWords) < totalItems + MaxAdvance

\* guided-dictation.tsx 63-91, called with the closure k on the state s;
\* with currentItem undefined, line 74 throws after line 66.
handleCharComplete(s, k) ==
    LET t == [s EXCEPT !.writtenChars = Append(k.writtenChars,
                                               CharAt(k.currentIndex, k.charIdx))]
    IN  IF k.charIdx + 1 < Len(Characters(k.currentIndex))
        THEN [t EXCEPT !.charIdx = k.charIdx + 1, !.tracerKey = s.tracerKey + 1]
        ELSE IF k.currentIndex >= totalItems
        THEN t
        ELSE [t EXCEPT !.completedWords = Append(s.completedWords, k.currentIndex),
                       !.writtenChars = << >>, !.charIdx = 0,
                       !.tracerKey = s.tracerKey + 1,
                       !.afterCelebrationRef =
                           IF k.currentIndex + 1 < totalItems THEN "next" ELSE "complete",
                       !.showCelebration = TRUE]

\* guided-dictation.tsx 153, 219-224: the Skip button is rendered until the
\* lesson is complete
GuidedSkipShown == gs.phase = "writing"

\* guided-dictation.tsx 94-106; with currentItem undefined, line 95 throws.
GuidedSkip ==
    /\ GuidedSkipShown
    /\ GuidedRoom
    /\ LET t == [gs EXCEPT !.completedWords = Append(gs.completedWords, gs.currentIndex),
                           !.writtenChars = << >>, !.charIdx = 0,
                           !.tracerKey = gs.tracerKey + 1]
       IN  GuidedCommit(IF gs.currentIndex >= totalItems THEN gs
                        ELSE IF gs.currentIndex + 1 < totalItems
                        THEN [t EXCEPT !.currentIndex = gs.currentIndex + 1]
                        ELSE [t EXCEPT !.phase = "complete"],
                        tr, trTimers)
    /\ UNCHANGED <<nonGuidedVars>>

\* guided-dictation.tsx 108-113, called by CelebrationRoll when it is done
GuidedCelebrationDone ==
    /\ gs.showCelebration
    /\ LET t == [gs EXCEPT !.showCelebration = FALSE, !.afterCelebrationRef = "null"]
       IN  GuidedCommit(CASE gs.afterCelebrationRef = "next" ->
                               [t EXCEPT !.currentIndex = gs.currentIndex + 1]
                          [] gs.afterCelebrationRef = "complete" ->
                               [t EXCEPT !.phase = "complete"]
                          [] OTHER -> t,
                        tr, trTimers)
    /\ UNCHANGED <<nonGuidedVars>>

\* characterLoader.ts 12-36 and guided-dictation.tsx 43-46: a fetch settles,
\* in any order, with the glyph of its character or with null.
GuidedFetchSettle ==
    \E c \in Chars, ok \in BOOLEAN :
        /\ gfetches[c] > 0
        /\ LET t == [gs EXCEPT !.charData = IF ok THEN c ELSE NoGlyph,
                               !.loading = FALSE]
           IN  /\ gs' = t
               /\ tr' = tr
               /\ trTouching' = (trTouching /\ TracerMounted /\ t.charData # NoGlyph)
        /\ gfetches' = [gfetches EXCEPT ![c] = @ - 1]
        /\ UNCHANGED <<nonGuidedVars, trTimers>>

(***************************************************************************)
(* The tracer's gestures and timers.                                       *)
(***************************************************************************)
\* StrokeTracer.tsx 459-467
TracerGrant ==
    /\ PanHandlersAttached /\ ~trTouching
    /\ Len(tr.drawnStrokes) < MaxCommitted
    /\ Len(trTimers) < MaxTracerTimers
    /\ \E p \in TouchPoints :
          /\ Drawn(<<p>>)
          /\ tr' = [tr EXCEPT !.pointsRef = <<p>>, !.currentPath = 1,
                              !.feedback = "null"]
    /\ trTouching' = TRUE
    /\ UNCHANGED <<nonGuidedVars, gs, gfetches, trTimers>>

\* StrokeTracer.tsx 468-475
TracerMove ==
    /\ PanHandlersAttached /\ trTouching
    /\ \E p \in TouchPoints :
          /\ Drawn(Append(tr.pointsRef, p))
          /\ tr' = [tr EXCEPT !.pointsRef = Append(tr.pointsRef, p),
                              !.currentPath = tr.currentPath + 1]
    /\ UNCHANGED <<nonGuidedVars, gs, gfetches, trTouching, trTimers>>

\* StrokeTracer.tsx 303-311: handleCorrect up to its timer
handleCorrect(t) ==
    [t EXCEPT !.feedback = "correct",
              !.drawnStrokes = Append(t.drawnStrokes, t.currentStrokeIdx),
              !.currentPath = 0]

\* A rejection that starts no timer.
handleIncorrectWithoutTimer(timers) == timers

\* StrokeTracer.tsx 337-343: handleIncorrect starts the 400 ms timer
handleIncorrect(timers) == Append(timers, LiveTimer("clear"))

\* StrokeTracer.tsx 476-478 with validateStroke (345-453)
TracerRelease ==
    /\ PanHandlersAttached /\ trTouching
    /\ LET verdict == validateStroke(gs.charData, tr.currentStrokeIdx, tr.pointsRef)
           t == [tr EXCEPT !.pointsRef = << >>]
       IN  CASE verdict = "accept" ->
                  /\ tr' = handleCorrect(t)
                  /\ trTimers' = Append(trTimers, LiveTimer("advance"))
             [] verdict = "reject" ->
                  /\ tr' = [t EXCEPT !.feedback = "incorrect"]
                  /\ trTimers' = handleIncorrect(trTimers)
             [] OTHER ->
                  /\ tr' = [t EXCEPT !.currentPath = 0]
                  /\ trTimers' = trTimers
    /\ trTouching' = FALSE
    /\ UNCHANGED <<nonGuidedVars, gs, gfetches>>

\* Timers of one delay fire in the order they were started.
Due(i) == \A j \in 1..(i - 1) : trTimers[j].kind # trTimers[i].kind

Without(timers, i) == SubSeq(timers, 1, i - 1) \o SubSeq(timers, i + 1, Len(timers))

\* StrokeTracer.tsx 313-334: the 300 ms timer of handleCorrect; with
\* suppressCelebration the last stroke starts the 400 ms timer of onComplete.
\* The state updates of an unmounted tracer are dropped.
TracerAdvanceTimer ==
    \E i \in DOMAIN trTimers :
        /\ trTimers[i].kind = "advance" /\ Due(i)
        /\ LET timer == trTimers[i]
               nextIdx == IF timer.live THEN tr.currentStrokeIdx + 1
                          ELSE timer.strokeIdx + 1
               total == IF timer.live THEN totalStrokes(gs.charData) ELSE timer.total
               rest == Without(trTimers, i)
           IN  /\ tr' = IF timer.live
                        THEN [tr EXCEPT !.currentStrokeIdx = nextIdx, !.feedback = "null"]
                        ELSE tr
               /\ trTimers' = IF nextIdx >= total
                              THEN Append(rest, [timer EXCEPT !.kind = "complete"])
                              ELSE rest
        /\ UNCHANGED <<nonGuidedVars, gs, gfetches, trTouching>>

\* StrokeTracer.tsx 339-342: the 400 ms timer of handleIncorrect
TracerClearTimer ==
    \E i \in DOMAIN trTimers :
        /\ trTimers[i].kind = "clear" /\ Due(i)
        /\ tr' = IF trTimers[i].live
                 THEN [tr EXCEPT !.currentPath = 0, !.feedback = "null"]
                 ELSE tr
        /\ trTimers' = Without(trTimers, i)
        /\ UNCHANGED <<nonGuidedVars, gs, gfetches, trTouching>>

\* StrokeTracer.tsx 320: the 400 ms timer calls onCompleteRef.current, the
\* handleCharComplete of the tracer's last render
TracerCompleteTimer ==
    \E i \in DOMAIN trTimers :
        /\ trTimers[i].kind = "complete" /\ Due(i)
        /\ GuidedRoom
        /\ GuidedCommit(handleCharComplete(gs, IF trTimers[i].live THEN GuidedClosure(gs)
                                               ELSE trTimers[i].k),
                        tr, Without(trTimers, i))
        /\ UNCHANGED <<nonGuidedVars>>

----------------------------------------------------------------------------
(***************************************************************************)
(* The writing screen (item/[itemIndex]/writing.tsx) of the lesson's first *)
(* item, and the StrokeTracer it mounts without suppressCelebration        *)
(* (writing.tsx 113-119).                                                  *)
(***************************************************************************)
\* writing.tsx 21-25
InitialWriting ==
    [mode |-> "demo", charIdx |-> 0, charData |-> NoGlyph,
     showCelebration |-> FALSE, loading |-> TRUE]

\* writing.tsx 19, 27-28, with itemIndex 0
writingChars == Characters(0)

writingChar(s) == CharAt(0, s.charIdx)

\* StrokeTracer.tsx 482-490, 507: the surface with the pan handlers
WritingPanHandlers == ws.mode = "trace" /\ ws.charData # NoGlyph

\* A pending timer of a tracer of the writing screen; once its tracer is
\* unmounted the refs keep the values of the last render, k being the
\* charIdx handleTraceComplete closes over.
WritingTimer(kind) ==
    [kind |-> kind, live |-> TRUE, strokeIdx |-> 0, total |-> 0, k |-> 0]

WritingFreeze(timer) ==
    IF timer.live
    THEN [timer EXCEPT !.live = FALSE, !.strokeIdx = wt.currentStrokeIdx,
                       !.total = totalStrokes(ws.charData), !.k = ws.charIdx]
    ELSE timer

WritingFreezeAll(timers) ==
    SelectSeq([i \in DOMAIN timers |-> WritingFreeze(timers[i])],
              LAMBDA timer : ~Idle(timer))

\* Commit the screen state t reached by a handler; then the load effect
\* (writing.tsx 31-39) runs if the character changed.  The tracer is
\* unmounted when the mode leaves 'trace' and mounted afresh when it enters.
WritingCommit(t) ==
    LET run == writingChar(t) # writingChar(ws) /\ writingChar(t) # NoChar
        u == IF run THEN [t EXCEPT !.charData = NoGlyph, !.loading = TRUE] ELSE t
        kept == ws.mode = "trace" /\ u.mode = "trace"
    IN  /\ ws' = u
        /\ wfetches' = IF run THEN [wfetches EXCEPT ![writingChar(t)] = @ + 1]
                       ELSE wfetches
        /\ wt' = IF kept THEN wt ELSE InitialTracer
        /\ wtTouching' = (kept /\ wtTouching /\ u.charData # NoGlyph)
        /\ wtTimers' = IF kept \/ ws.mode # "trace" THEN wtTimers
                       ELSE WritingFreezeAll(wtTimers)

\* characterLoader.ts 12-36 and writing.tsx 35-38: a fetch settles, in any
\* order, with the glyph of its character or with null.
WritingFetchSettle ==
    \E c \in Chars, ok \in BOOLEAN :
        /\ wfetches[c] > 0
        /\ ws' = [ws EXCEPT !.charData = IF ok THEN c ELSE NoGlyph, !.loading = FALSE]
        /\ wtTouching' = (wtTouching /\ ws.mode = "trace" /\ ok)
        /\ wfetches' = [wfetches EXCEPT ![c] = @ - 1]
        /\ UNCHANGED <<nonWritingVars, wsTimers, wt, wtTimers>>

\* writing.tsx 104-108: the button under the demonstration
StartTrace ==
    /\ ws.mode = "demo" /\ ~ws.loading
    /\ WritingCommit([ws EXCEPT !.mode = "trace"])
    /\ UNCHANGED <<nonWritingVars, wsTimers>>

\* StrokeTracer.tsx 459-467
WritingGrant ==
    /\ WritingPanHandlers /\ ~wtTouching
    /\ Len(wt.drawnStrokes) < MaxCommitted
    /\ Len(wtTimers) + Len(wsTimers) < MaxTracerTimers
    /\ \E p \in TouchPoints :
          /\ Drawn(<<p>>)
          /\ wt' = [wt EXCEPT !.pointsRef = <<p>>, !.currentPath = 1,
                              !.feedback = "null"]
    /\ wtTouching' = TRUE
    /\ UNCHANGED <<nonWritingVars, ws, wfetches, wsTimers, wtTimers>>

\* StrokeTracer.tsx 468-475
WritingMove ==
    /\ WritingPanHandlers /\ wtTouching
    /\ \E p \in TouchPoints :
          /\ Drawn(Append(wt.pointsRef, p))
          /\ wt' = [wt EXCEPT !.pointsRef = Append(wt.pointsRef, p),
                              !.currentPath = wt.currentPath + 1]
    /\ UNCHANGED <<nonWritingVars, ws, wfetches, wsTimers, wtTouching, wtTimers>>

\* StrokeTracer.tsx 476-478 with validateStroke (345-453), handleCorrect
\* (303-311) and handleIncorrect (337-343)
WritingRelease ==
    /\ WritingPanHandlers /\ wtTouching
    /\ LET verdict == validateStroke(ws.charData, wt.currentStrokeIdx, wt.pointsRef)
           t == [wt EXCEPT !.pointsRef = << >>]
       IN  CASE verdict = "accept" ->
                  /\ wt' = handleCorrect(t)
                  /\ wtTimers' = Append(wtTimers, WritingTimer("advance"))
             [] verdict = "reject" ->
                  /\ wt' = [t EXCEPT !.feedback = "incorrect"]
                  /\ wtTimers' = Append(wtTimers, WritingTimer("clear"))
             [] OTHER ->
                  /\ wt' = [t EXCEPT !.currentPath = 0]
                  /\ wtTimers' = wtTimers
    /\ wtTouching' = FALSE
    /\ UNCHANGED <<nonWritingVars, ws, wfetches, wsTimers>>

\* Timers of one delay fire in the order they were started.
WritingDue(i) == \A j \in 1..(i - 1) : wtTimers[j].kind # wtTimers[i].kind

\* StrokeTracer.tsx 313-334: the 300 ms timer of handleCorrect; without
\* suppressCelebration the last stroke starts the 800 ms timer.
WritingAdvanceTimer ==
    \E i \in DOMAIN wtTimers :
        /\ wtTimers[i].kind = "advance" /\ WritingDue(i)
        /\ LET timer == wtTimers[i]
               nextIdx == IF timer.live THEN wt.currentStrokeIdx + 1
                          ELSE timer.strokeIdx + 1
               total == IF timer.live THEN totalStrokes(ws.charData) ELSE timer.total
               rest == Without(wtTimers, i)
           IN  /\ wt' = IF timer.live
                        THEN [wt EXCEPT !.currentStrokeIdx = nextIdx, !.feedback = "null"]
                        ELSE wt
               /\ wtTimers' = IF nextIdx >= total
                              THEN Append(rest, [timer EXCEPT !.kind = "celebrate"])
                              ELSE rest
        /\ UNCHANGED <<nonWritingVars, ws, wfetches, wsTimers, wtTouching>>

\* StrokeTracer.tsx 326-331: the 800 ms timer shows the celebration and
\* starts the 2000 ms timer
WritingCelebrateTimer ==
    \E i \in DOMAIN wtTimers :
        /\ wtTimers[i].kind = "celebrate" /\ WritingDue(i)
        /\ wt' = IF wtTimers[i].live THEN [wt EXCEPT !.showCelebration = TRUE] ELSE wt
        /\ wtTimers' = Append(Without(wtTimers, i),
                              [wtTimers[i] EXCEPT !.kind = "complete"])
        /\ UNCHANGED <<nonWritingVars, ws, wfetches, wsTimers, wtTouching>>

\* StrokeTracer.tsx 339-342: the 400 ms timer of handleIncorrect
WritingClearTimer ==
    \E i \in DOMAIN wtTimers :
        /\ wtTimers[i].kind = "clear" /\ WritingDue(i)
        /\ wt' = IF wtTimers[i].live
                 THEN [wt EXCEPT !.currentPath = 0, !.feedback = "null"]
                 ELSE wt
        /\ wtTimers' = Without(wtTimers, i)
        /\ UNCHANGED <<nonWritingVars, ws, wfetches, wsTimers, wtTouching>>

\* StrokeTracer.tsx 328-330: the 2000 ms timer calls onCompleteRef.current,
\* the handleTraceComplete of the tracer's last render (writing.tsx 55-57),
\* which shows the celebration and starts the 1000 ms timer.
WritingCompleteTimer ==
    \E i \in DOMAIN wtTimers :
        /\ wtTimers[i].kind = "complete" /\ WritingDue(i)
        /\ ws' = [ws EXCEPT !.showCelebration = TRUE]
        /\ wsTimers' = Append(wsTimers, IF wtTimers[i].live THEN ws.charIdx
                                        ELSE wtTimers[i].k)
        /\ wtTimers' = Without(wtTimers, i)
        /\ UNCHANGED <<nonWritingVars, wfetches, wt, wtTouching>>

\* writing.tsx 57-69: the 1000 ms timer of handleTraceComplete
WritingCelebrationTimer ==
    /\ wsTimers # << >>
    /\ LET k == Head(wsTimers)
           t == [ws EXCEPT !.showCelebration = FALSE]
       IN  WritingCommit(IF k + 1 < Len(writingChars)
                         THEN [t EXCEPT !.charIdx = k + 1, !.mode = "demo"]
                         ELSE [t EXCEPT !.mode = "done"])
    /\ wsTimers' = Tail(wsTimers)
    /\ UNCHANGED <<nonWritingVars>>

\* StrokeTracer.tsx 574-596: the repeat buttons, under the finished glyph
\* and on the celebration overlay
RepeatShown ==
    /\ ws.mode = "trace" /\ ws.charData # NoGlyph
    /\ \/ wt.currentStrokeIdx >= totalStrokes(ws.charData) /\ ~wt.showCelebration
       \/ wt.showCelebration

\* A repeat that leaves the celebration overlay.
handleRepeatKeepingCelebration(t) ==
    [t EXCEPT !.currentStrokeIdx = 0, !.drawnStrokes = << >>, !.currentPath = 0,
              !.feedback = "null"]

\* StrokeTracer.tsx 287-294
handleRepeat(t) ==
    [t EXCEPT !.currentStrokeIdx = 0, !.drawnStrokes = << >>, !.currentPath = 0,
              !.feedback = "null", !.showCelebration = FALSE]

WritingRepeat ==
    /\ RepeatShown
    /\ wt' = handleRepeat(wt)
    /\ UNCHANGED <<nonWritingVars, ws, wfetches, wsTimers, wtTouching, wtTimers>>

----------------------------------------------------------------------------
\* The screens after their first render and its effects: the guided screen
\* has started the fetch of the first character (guided-dictation.tsx 39-47).
InitWith(lessons) ==
    /\ items \in lessons
    /\ ds = InitialScreen
    /\ touching = FALSE
    /\ pendingCheck = << >>
    /\ advanceTimers = << >>
    /\ clearTimers = 0
    /\ fetches = [c \in Chars |-> 0]
    /\ gs = InitialGuided
    /\ gfetches = [c \in Chars |-> IF c = CharAt(0, 0) THEN 1 ELSE 0]
    /\ tr = InitialTracer
    /\ trTouching = FALSE
    /\ trTimers = << >>
    /\ lc = InitialLocator
    /\ ws = InitialWriting
    /\ wfetches = [c \in Chars |-> IF c = CharAt(0, 0) THEN 1 ELSE 0]
    /\ wsTimers = << >>
    /\ wt = InitialTracer
    /\ wtTouching = FALSE
    /\ wtTimers = << >>

Init == InitWith(Lessons)

Next ==
    \/ onPanResponderGrant
    \/ onPanResponderMove
    \/ onPanResponderRelease
    \/ handleClear
    \/ CheckStart
    \/ CheckUnrendered
    \/ CheckSettle
    \/ AdvanceTimer
    \/ ClearTimer
    \/ handleSkip
    \/ handleDismissHint
    \/ handleDismissAnimation
    \/ AnimationTick
    \/ handleCelebrationDone
    \/ FetchSettle

Spec == Init /\ [][Next]_vars

\* The tested-mode screen with one more fetch in flight.
NextLateLoad ==
    \/ onPanResponderGrant
    \/ onPanResponderMove
    \/ onPanResponderRelease
    \/ handleClear
    \/ CheckStartLateLoad
    \/ CheckUnrenderedLateLoad
    \/ CheckSettle
    \/ AdvanceTimer
    \/ ClearTimer
    \/ handleSkip
    \/ handleDismissHint
    \/ handleDismissAnimation
    \/ AnimationTick
    \/ handleCelebrationDone
    \/ FetchSettle

SpecLateLoad == Init /\ [][NextLateLoad]_vars

\* The tested-mode screen on a lesson whose first word, of two characters,
\* is followed by another word.
NextWordLessons == { << <<1, 2>>, <<4>> >> }

InitNextWord == InitWith(NextWordLessons)

SpecNextWord == InitNextWord /\ [][Next]_vars

GuidedNext ==
    \/ GuidedFetchSettle
    \/ GuidedSkip
    \/ GuidedCelebrationDone
    \/ TracerGrant
    \/ TracerMove
    \/ TracerRelease
    \/ TracerAdvanceTimer
    \/ TracerClearTimer
    \/ TracerCompleteTimer

SpecGuided == Init /\ [][GuidedNext]_vars

LocatorNext ==
    \/ LocatorStroke
    \/ LocatorClear
    \/ LocatorCall

SpecLocator == Init /\ [][LocatorNext]_vars

WritingNext ==
    \/ WritingFetchSettle
    \/ StartTrace
    \/ WritingGrant
    \/ WritingMove
    \/ WritingRelease
    \/ WritingAdvanceTimer
    \/ WritingCelebrateTimer
    \/ WritingClearTimer
    \/ WritingCompleteTimer
    \/ WritingCelebrationTimer
    \/ WritingRepeat

SpecWriting == Init /\ [][WritingNext]_vars

----------------------------------------------------------------------------
(***************************************************************************)
(* Properties of the tested-mode screen.                                   *)
(***************************************************************************)
EscalationState(s) == <<s.charAttempts, s.errorPhase, s.postAnimation>>

Cursor(s) == <<s.currentIndex, s.charIdx>>

\* A step that applies an incorrect judgment: a check settles, or runs
\* without an image, and no 600 ms timer is started.
IncorrectJudgmentStep ==
    /\ CheckSettle \/ CheckUnrendered
    /\ advanceTimers' = advanceTimers

\* C1: the n-th consecutive incorrect judgment on the active character (the
\* active character has n - 1 counted so far) leaves Normal for n = 1, enters
\* Hint for n = 2, enters Demonstration for n = 3, and leaves Normal for
\* n >= 4.
C1_EscalationSequence ==
    [][IncorrectJudgmentStep =>
         LET n == ds.charAttempts + 1
         IN  /\ ds'.charAttempts = n
             /\ n = 1 => ds'.errorPhase = "none"
             /\ n = 2 => ds'.errorPhase = "hint"
             /\ n = 3 => ds'.errorPhase = "animation"
             /\ n >= 4 => ds'.errorPhase = "none"]_vars

\* C2: the escalation state returns to (0, Normal, false) only by a correct
\* judgment being committed or by leaving the character (skip, or the cursor
\* moving); dismissing the Hint leaves the counter and postDemonstration
\* unchanged, dismissing the Demonstration leaves the counter unchanged, and
\* Clear leaves all three unchanged.
C2_ResetOnlyOnChangeOrCorrect ==
    [][/\ (/\ EscalationState(ds') = <<0, "none", FALSE>>
           /\ EscalationState(ds) # <<0, "none", FALSE>>)
          => (AdvanceTimer \/ handleSkip \/ Cursor(ds') # Cursor(ds))
       /\ handleDismissHint =>
            /\ ds'.charAttempts = ds.charAttempts
            /\ ds'.postAnimation = ds.postAnimation
            /\ ds'.errorPhase = "none"
       /\ handleDismissAnimation =>
            /\ ds'.charAttempts = ds.charAttempts
            /\ ds'.postAnimation
            /\ ds'.errorPhase = "none"
       /\ handleClear => EscalationState(ds') = EscalationState(ds)]_vars

\* The Demonstration has been dismissed and the three wrong attempts still count.
C2_Witness ==
    /\ ds.postAnimation /\ ds.errorPhase = "none" /\ ds.charAttempts = 3
    /\ ds.phase = "writing"

\* C3: when advanceChar has run after a correct judgment and the canvas is
\* shown, the counter is 0, the phase Normal and postDemonstration false.
C3_AdvanceResets ==
    [][AdvanceTimer =>
         (CanvasShownIn(ds') => EscalationState(ds') = <<0, "none", FALSE>>)]_vars

\* C4: the glyph the screen holds is absent or the glyph of the active
\* character.
C4_GlyphOfActiveChar == ds.charData = NoGlyph \/ ds.charData = currentChar

\* C5: while the phase is Hint or Demonstration the committed strokes are
\* empty, no gesture is in flight and no check is awaiting its result.
C5_NoStrokesWhileEscalated ==
    ds.errorPhase \in {"hint", "animation"} =>
        /\ ds.drawnPaths = << >> /\ ds.currentPath = 0
        /\ ~touching
        /\ pendingCheck = << >> /\ ~ds.checking

\* The Hint was entered from a judged attempt of at least one stroke.
C5_Witness == ds.errorPhase = "hint" /\ ds.lastAttemptPaths # << >>

\* The glyph of the active character is unavailable: none is held and no
\* fetch of it is in flight.
GlyphUnavailable == ds.charData = NoGlyph /\ fetches[currentChar] = 0

\* Some in-screen user action is offered: the canvas with its Skip button,
\* the Hint's dismiss button or the Demonstration's dismiss button.
UserActionOffered ==
    \/ CanvasShown
    \/ ds.errorPhase = "hint"
    \/ ds.errorPhase = "animation" /\ animDone(ds)

\* C6: while a character is practised and its glyph is unavailable, the
\* screen offers a user action (draw, dismiss or skip).
C6_NullGlyphNeverBlocks ==
    (ds.phase = "writing" /\ currentChar # NoChar /\ GlyphUnavailable)
        => UserActionOffered

\* C8: a check whose recognizer failed (threw, returned nothing, or had no
\* image to send) while a character is active is judged incorrect: the
\* counter grows by one, no advance is scheduled and the cursor stays.
C8_RecognizerFailureIsIncorrect ==
    [][(/\ currentChar # NoChar
        /\ CheckSettleWith("throw") \/ CheckSettleWith("empty") \/ CheckUnrendered) =>
         /\ ds'.charAttempts = ds.charAttempts + 1
         /\ advanceTimers' = advanceTimers
         /\ ds'.feedback # "correct"
         /\ Cursor(ds') = Cursor(ds)]_vars

(***************************************************************************)
(* Properties of the guided tracer and its validator.                      *)
(***************************************************************************)
\* C7: a tracer mounted without glyph data has one stroke, takes gestures,
\* and accepts every gesture of two points.
C7_NullGlyphSingleStroke ==
    (TracerMounted /\ guidedChar # NoChar /\ gs.charData = NoGlyph) =>
        /\ totalStrokes(gs.charData) = 1
        /\ PanHandlersAttached
        /\ \A p, q \in TouchPoints :
               validateStroke(gs.charData, tr.currentStrokeIdx, <<p, q>>) = "accept"

\* The expected length is below 2.5% of the grid size.
InDotRange(median) ==
    1600 * Dist2(ToSurface(median[1]), ToSurface(median[Len(median)]))
        < Sq(WRITING_GRID_SIZE)

\* The normalized dot product x / sqrt(q) is above 0.707.
NormalizedDotAbove(x, q) ==
    /\ x >= 1
    /\ LET whole == Sq(x) \div 499849
           rest == Sq(x) % 499849
       IN  (Sq(x) - (q - Sq(x))) + 302 * whole + ((302 * rest - 1) \div 499849) >= 0

\* The six conditions on a gesture and the median of its stroke.
SixConditions(pts, median) ==
    LET expectedStart == ToSurface(median[1])
        expectedEnd == ToSurface(median[Len(median)])
        drawnStart == pts[1]
        drawnEnd == pts[Len(pts)]
    IN  /\ 2500 * Dist2(drawnStart, expectedStart) <= 81 * Sq(WRITING_GRID_SIZE)
        /\ 16 * Dist2(drawnStart, drawnEnd) >= Dist2(expectedStart, expectedEnd)
        /\ 25 * Dist2(drawnEnd, expectedEnd) <= Sq(WRITING_GRID_SIZE)
        /\ PathLow(pts) <= 2 * SqrtHigh(Dist2(drawnStart, drawnEnd))
        /\ \A i \in DOMAIN pts :
               \E j \in DOMAIN median :
                   2500 * Dist2(pts[i], ToSurface(median[j]))
                       <= 121 * Sq(WRITING_GRID_SIZE)
        /\ NormalizedDotAbove(
               (drawnEnd[1] - drawnStart[1]) * (expectedEnd[1] - expectedStart[1])
             + (drawnEnd[2] - drawnStart[2]) * (expectedEnd[2] - expectedStart[2]),
               Dist2(drawnStart, drawnEnd) * Dist2(expectedStart, expectedEnd))

\* The released gesture is validated against a median of at least 2 points.
ValidatedAgainstMedian ==
    /\ Len(tr.pointsRef) >= 2
    /\ gs.charData # NoGlyph
    /\ tr.currentStrokeIdx + 1 \in DOMAIN Medians(gs.charData)
    /\ Len(Medians(gs.charData)[tr.currentStrokeIdx + 1]) >= 2

\* C9: a released gesture of at least 2 points, validated against a median
\* of at least 2 points outside the dot range, is accepted if and only if
\* the six conditions hold, and is rejected otherwise.
C9_AcceptIffSixConditions ==
    [][(/\ TracerRelease
        /\ ValidatedAgainstMedian
        /\ ~InDotRange(Medians(gs.charData)[tr.currentStrokeIdx + 1])) =>
         LET six == SixConditions(tr.pointsRef,
                                  Medians(gs.charData)[tr.currentStrokeIdx + 1])
         IN  /\ six => tr'.feedback = "correct"
             /\ ~six => tr'.feedback = "incorrect"]_vars

\* C11: with glyph data present and the median of the current stroke index
\* absent or of fewer than 2 points, the release of a gesture of at least 2
\* points is accepted and committed, whatever its points: the feedback is
\* 'correct', the stroke is appended to the committed strokes and the 300 ms
\* timer of the acceptance is started.
C11_NoReferenceAccepts ==
    [][(/\ TracerRelease
        /\ gs.charData # NoGlyph
        /\ Len(tr.pointsRef) >= 2
        /\ Len(expectedMedianOf(gs.charData, tr.currentStrokeIdx)) < 2) =>
         /\ tr'.feedback = "correct"
         /\ tr'.drawnStrokes = Append(tr.drawnStrokes, tr.currentStrokeIdx)
         /\ tr'.currentPath = 0
         /\ trTimers' = Append(trTimers, LiveTimer("advance"))]_vars

\* Two gestures have been committed on glyph 3: one against its median of a
\* single point, one against its missing median.
C11_Witness == gs.charData = 3 /\ tr.drawnStrokes = <<0, 1>>

\* The drawn start lies within 18% of the grid size of the expected start.
StartNear(pts, median) ==
    2500 * Dist2(pts[1], ToSurface(median[1])) <= 81 * Sq(WRITING_GRID_SIZE)

\* C12: a released gesture validated against a median whose surface length
\* is below 2.5% of the grid size is accepted if and only if its start is
\* within 18% of the grid size of the expected start; against every median
\* of at least 2.5% of the grid size the full sequence of checks decides.
C12_DotRuleRange ==
    [][(TracerRelease /\ ValidatedAgainstMedian) =>
         LET median == expectedMedianOf(gs.charData, tr.currentStrokeIdx)
             accepted == tr'.feedback = "correct"
         IN  IF InDotRange(median)
             THEN accepted <=> StartNear(tr.pointsRef, median)
             ELSE accepted <=> SixConditions(tr.pointsRef, median)]_vars

\* The gesture passes the start, minimum-length, end, sinuosity and deviation
\* checks against the median.
PassesFirstFive(pts, median) ==
    LET expectedStart == ToSurface(median[1])
        expectedEnd == ToSurface(median[Len(median)])
        drawn2 == Dist2(pts[1], pts[Len(pts)])
    IN  /\ StartNear(pts, median)
        /\ 16 * drawn2 >= Dist2(expectedStart, expectedEnd)
        /\ 25 * Dist2(pts[Len(pts)], expectedEnd) <= Sq(WRITING_GRID_SIZE)
        /\ PathLow(pts) <= 2 * SqrtHigh(drawn2)
        /\ \A i \in DOMAIN pts :
               \E j \in DOMAIN median :
                   2500 * Dist2(pts[i], ToSurface(median[j]))
                       <= 121 * Sq(WRITING_GRID_SIZE)

\* The dot product of the drawn and the expected displacement.
Displacements(pts, median) ==
    LET expectedStart == ToSurface(median[1])
        expectedEnd == ToSurface(median[Len(median)])
    IN  (pts[Len(pts)][1] - pts[1][1]) * (expectedEnd[1] - expectedStart[1])
      + (pts[Len(pts)][2] - pts[1][2]) * (expectedEnd[2] - expectedStart[2])

\* The angle between the drawn and the expected displacement is below 45
\* degrees: their normalized dot product is above 0.707.
Within45(pts, median) ==
    NormalizedDotAbove(Displacements(pts, median),
                       Dist2(pts[1], pts[Len(pts)])
                           * Dist2(ToSurface(median[1]), ToSurface(median[Len(median)])))

\* C13: a released gesture that passes the start, minimum-length, end,
\* sinuosity and deviation checks against a median of at least 2.5% of the
\* grid size is accepted if and only if its direction is within 45 degrees
\* of the expected one; drawn perpendicular to or against the expected
\* direction (dot product not positive) it is not accepted.
C13_DirectionDecides ==
    [][(/\ TracerRelease
        /\ ValidatedAgainstMedian
        /\ ~InDotRange(expectedMedianOf(gs.charData, tr.currentStrokeIdx))
        /\ PassesFirstFive(tr.pointsRef,
                           expectedMedianOf(gs.charData, tr.currentStrokeIdx))) =>
         LET median == expectedMedianOf(gs.charData, tr.currentStrokeIdx)
         IN  /\ tr'.feedback = "correct" <=> Within45(tr.pointsRef, median)
             /\ Displacements(tr.pointsRef, median) <= 0
                    => tr'.feedback = "incorrect"]_vars

\* The points of a gesture on the tablet's surface, scaled to the phone's
\* surface (the touch points are multiples of 5, so the scaling is exact).
ScaledToPhone(pts) ==
    [i \in DOMAIN pts |->
        << (pts[i][1] * PHONE_GRID_SIZE) \div WRITING_GRID_SIZE,
           (pts[i][2] * PHONE_GRID_SIZE) \div WRITING_GRID_SIZE >>]

\* C14: the validator gives a released gesture the verdict it gives the
\* same gesture scaled by k, against the same median, with the grid size
\* scaled by k (k = 256 / 320).
C14_ResolutionIndependent ==
    [][TracerRelease =>
         validateStroke(gs.charData, tr.currentStrokeIdx, tr.pointsRef)
           = validateStrokeAt(PHONE_GRID_SIZE, gs.charData, tr.currentStrokeIdx,
                              ScaledToPhone(tr.pointsRef))]_vars

\* The 400 ms timer that fires belongs to the mounted tracer.
CompleteTimerOfMountedTracer ==
    /\ TracerCompleteTimer
    /\ TracerMounted
    /\ \A i \in DOMAIN trTimers : trTimers[i].kind = "complete" => trTimers[i].live

\* C15: when the mounted tracer of a glyph with n strokes invokes onComplete,
\* its first n committed strokes were validated against the medians
\* 0 .. n - 1 in this order; and a gesture that passes validation is not
\* marked as a rejection.
C15_CompleteAfterAllStrokes ==
    [][/\ CompleteTimerOfMountedTracer =>
            LET n == totalStrokes(gs.charData)
            IN  /\ Len(tr.drawnStrokes) >= n
                /\ \A i \in 1..n : tr.drawnStrokes[i] = i - 1
       /\ (/\ TracerRelease
           /\ validateStroke(gs.charData, tr.currentStrokeIdx, tr.pointsRef) = "accept")
            => tr'.feedback = "correct"]_vars

(***************************************************************************)
(* Properties of the error locator.                                        *)
(***************************************************************************)
\* C16: a call of findErrorCircle returns null if and only if the drawn
\* paths contain no points, and every circle it returns has a radius above 0.
C16_NullIffNoPoints ==
    lc.called =>
        /\ ~lc.circle.found <=> drawnPointsOf(lc.drawnPaths) = << >>
        /\ lc.circle.found => lc.circle.r2 > 0

\* The locator was called on drawn strokes without a glyph, and on no stroke.
C16_Witness ==
    /\ lc.called /\ lc.data = NoGlyph
    /\ lc.drawnPaths # << >> /\ lc.circle.found

\* The surface-space reference points of the glyph data.
ReferencePoints(data, gridSize) ==
    IF data = NoGlyph THEN {}
    ELSE LET correct == correctPointsOf(Strokes(data), gridSize)
         IN  {correct[i] : i \in DOMAIN correct}

\* The smallest squared distance from p to a reference point.
ToReference2(p, ref) ==
    CHOOSE d \in {Dist2(p, c) : c \in ref} : \A e \in {Dist2(p, c) : c \in ref} : d <= e

\* The circle is the centroid of the drawn points with radius 28% of the
\* grid size.
IsCentroidCircle(circle, drawn, gridSize) ==
    /\ circle.cx[1] * Len(drawn) = SumOf(drawn, 1) * circle.cx[2]
    /\ circle.cy[1] * Len(drawn) = SumOf(drawn, 2) * circle.cy[2]
    /\ circle.r2 = 784 * Sq(gridSize)

\* C17: on drawn points, with reference points and the largest distance of a
\* drawn point to its nearest reference point above 5% of the grid size, the
\* circle is centred on a drawn point at that largest distance W, with radius
\* max(22% of the grid size, 55% of W); otherwise, and without reference
\* points, it is the centroid circle of radius 28% of the grid size.
C17_WorstPointOrCentroid ==
    (lc.called /\ drawnPointsOf(lc.drawnPaths) # << >>) =>
        LET drawn == drawnPointsOf(lc.drawnPaths)
            ref == ReferencePoints(lc.data, lc.gridSize)
            far == {i \in DOMAIN drawn :
                       400 * ToReference2(drawn[i], ref) > Sq(lc.gridSize)}
        IN  IF ref # {} /\ far # {}
            THEN \E i \in DOMAIN drawn :
                    /\ \A j \in DOMAIN drawn :
                           ToReference2(drawn[j], ref) <= ToReference2(drawn[i], ref)
                    /\ lc.circle.cx = <<drawn[i][1], 1>>
                    /\ lc.circle.cy = <<drawn[i][2], 1>>
                    /\ lc.circle.r2 = Max(484 * Sq(lc.gridSize),
                                          3025 * ToReference2(drawn[i], ref))
            ELSE IsCentroidCircle(lc.circle, drawn, lc.gridSize)

\* The locator gave a circle around the worst point whose radius is 55% of
\* its distance.
C17_Witness ==
    /\ lc.called /\ lc.circle.found /\ lc.circle.cx[2] = 1
    /\ lc.circle.r2 > 484 * Sq(lc.gridSize)

(***************************************************************************)
(* Further properties of the guided tracer.                                *)
(***************************************************************************)
\* The 400 ms timer of a rejection on the mounted tracer is pending.
ClearPending(timers) ==
    \E i \in DOMAIN timers : timers[i].kind = "clear" /\ timers[i].live

\* C10: the release of a gesture that is not accepted leaves the stroke
\* index and the committed strokes unchanged, and the live path is cleared at
\* once or by the rejection's timer, which clears it when it fires.
C10_RejectedGestureFrame ==
    [][/\ (/\ TracerRelease
           /\ validateStroke(gs.charData, tr.currentStrokeIdx, tr.pointsRef) # "accept")
          => /\ tr'.currentStrokeIdx = tr.currentStrokeIdx
             /\ tr'.drawnStrokes = tr.drawnStrokes
             /\ tr'.currentPath = 0 \/ ClearPending(trTimers')
       /\ (TracerClearTimer /\ ClearPending(trTimers) /\ UNCHANGED gs)
          => (~ClearPending(trTimers') => tr'.currentPath = 0)]_vars

\* A gesture has been rejected: its path is still shown and its timer runs.
C10_Witness ==
    /\ tr.feedback = "incorrect" /\ tr.currentPath >= 2 /\ ~trTouching
    /\ ClearPending(trTimers)
    /\ tr.currentStrokeIdx = 0 /\ tr.drawnStrokes = << >>

(***************************************************************************)
(* Skipping.                                                               *)
(***************************************************************************)
\* C18: in every state of the tested and of the guided screen with phase
\* 'writing', the Hint and Demonstration phases and a check in flight
\* included, the skip operation is enabled.
C18_SkipAlwaysAvailable ==
    /\ ds.phase = "writing" => SkipShown
    /\ gs.phase = "writing" => GuidedSkipShown

\* The closure k is of the unit at word w, character c, and advanceChar
\* called with it shows the celebration (dictation.tsx 268-287).
CelebratesUnit(k, w, c) ==
    /\ k.currentIndex = w /\ k.charIdx = c
    /\ w < totalItems /\ c + 1 >= Len(Characters(w))

\* A check or a timer of a correct judgment of the unit is pending.
PendingCelebrationOf(checks, timers, w, c) ==
    \/ \E i \in DOMAIN checks : CelebratesUnit(checks[i], w, c)
    \/ \E i \in DOMAIN timers : CelebratesUnit(timers[i], w, c)

\* The cursor of s moved to the next character, to the next word or to
\* lesson-complete in t.
SkippedChar(s, t) ==
    IF s.charIdx + 1 < Len(Characters(s.currentIndex))
    THEN t.currentIndex = s.currentIndex /\ t.charIdx = s.charIdx + 1
    ELSE IF s.currentIndex + 1 < totalItems
    THEN t.currentIndex = s.currentIndex + 1 /\ t.charIdx = 0
    ELSE t.phase = "complete"

\* A timer of the tracer will call handleCharComplete on the last character
\* of word w (guided-dictation.tsx 63-91).
PendingCompletionOf(timers, s, w) ==
    \E i \in DOMAIN timers :
        LET k == IF timers[i].live THEN GuidedClosure(s) ELSE timers[i].k
        IN  /\ timers[i].kind = "complete"
            /\ k.currentIndex = w /\ k.charIdx + 1 >= Len(Characters(w))

\* C19: a skip moves the cursor to the next character (tested screen) or the
\* next word (guided screen), or to lesson-complete after the last one; it
\* starts no celebration, and nothing it leaves pending shows the
\* celebration for the skipped unit.
C19_SkipWithoutCelebration ==
    [][/\ handleSkip
          => /\ SkippedChar(ds, ds')
             /\ ds'.showCelebration = ds.showCelebration
             /\ ~PendingCelebrationOf(pendingCheck', advanceTimers',
                                      ds.currentIndex, ds.charIdx)
       /\ GuidedSkip
          => /\ IF gs.currentIndex + 1 < totalItems
                THEN gs'.currentIndex = gs.currentIndex + 1 /\ gs'.charIdx = 0
                ELSE gs'.phase = "complete"
             /\ gs'.showCelebration = gs.showCelebration
             /\ ~PendingCompletionOf(trTimers', gs, gs.currentIndex)]_vars

(***************************************************************************)
(* The tracer's repeat.                                                    *)
(***************************************************************************)
\* C20: the tracer's repeat leaves the stroke index at 0, no committed
\* stroke, an empty live path, no feedback and no celebration showing, and
\* leaves the glyph data as they were.
C20_RepeatResetsSession ==
    [][WritingRepeat
          => /\ wt'.currentStrokeIdx = 0
             /\ wt'.drawnStrokes = << >>
             /\ wt'.currentPath = 0
             /\ wt'.feedback = "null"
             /\ ~wt'.showCelebration
             /\ ws'.charData = ws.charData]_vars

\* The repeat on the celebration overlay was pressed: the session is reset
\* while the 2000 ms timer the celebration started is still pending.
C20_Witness ==
    /\ ws.mode = "trace" /\ ws.charData # NoGlyph
    /\ wt.currentStrokeIdx = 0 /\ wt.drawnStrokes = << >> /\ ~wt.showCelebration
    /\ \E i \in DOMAIN wtTimers : wtTimers[i].kind = "complete" /\ wtTimers[i].live

(***************************************************************************)
(* Accepted strokes and the stroke index.                                  *)
(***************************************************************************)
\* A 300 ms timer of the mounted tracer is pending.
AdvancePending(timers) ==
    \E i \in DOMAIN timers : timers[i].kind = "advance" /\ timers[i].live

\* C21: whenever no 300 ms advance of the mounted tracer is pending, the
\* stroke index equals the number of committed strokes, and the k-th
\* committed stroke was validated against median k-1.
C21_IndexCountsCommitted ==
    ~AdvancePending(trTimers)
        => /\ tr.currentStrokeIdx = Len(tr.drawnStrokes)
           /\ \A k \in DOMAIN tr.drawnStrokes : tr.drawnStrokes[k] = k - 1

(***************************************************************************)
(* The Demonstration and Hint phases of the tested-mode screen.            *)
(***************************************************************************)
Demonstrating(s) == s.phase = "writing" /\ s.errorPhase = "animation"

\* C22: the stroke cursor of the Demonstration phase starts at 0, changes
\* only by +1, and never exceeds the stroke count of the glyph shown; the
\* phase is dismissed only with the cursor at that stroke count, and the
\* dismissal sets postAnimation, returns to the Normal phase and leaves the
\* canvas empty.
C22_DemonstrationCursor ==
    [][/\ (~Demonstrating(ds) /\ Demonstrating(ds')) => ds'.animStrokeIdx = 0
       /\ (Demonstrating(ds) /\ Demonstrating(ds'))
             => ds'.animStrokeIdx \in {ds.animStrokeIdx, ds.animStrokeIdx + 1}
       /\ (Demonstrating(ds') /\ ds'.charData # NoGlyph)
             => ds'.animStrokeIdx <= StrokeCount(ds'.charData)
       /\ handleDismissAnimation
             => /\ ds.animStrokeIdx = StrokeCount(ds.charData)
                /\ ds'.postAnimation /\ ds'.errorPhase = "none"
                /\ ds'.drawnPaths = << >> /\ ds'.currentPath = 0]_vars

InHint(s) == s.phase = "writing" /\ s.errorPhase = "hint"

\* C23: the Hint phase is entered with a frozen attempt and an error circle,
\* and every step from a Hint state other than the dismissal of the hint
\* stays in the Hint phase and keeps the frozen attempt and a circle.
C23_HintUntilDismissed ==
    [][/\ (~InHint(ds) /\ InHint(ds'))
             => ds'.lastAttemptPaths # << >> /\ ds'.errorCircle # "null"
       /\ (InHint(ds) /\ ~handleDismissHint)
             => /\ InHint(ds')
                /\ ds'.lastAttemptPaths = ds.lastAttemptPaths
                /\ ds'.errorCircle # "null"]_vars

(***************************************************************************)
(* The cursor inside the current word.                                     *)
(***************************************************************************)
\* The first n characters of the word at index.
FirstChars(index, n) == SubSeq(Characters(index), 1, n)

CursorConsistent(s) ==
    (s.phase = "writing" /\ Characters(s.currentIndex) # << >>)
        => /\ s.charIdx < Len(Characters(s.currentIndex))
           /\ s.writtenChars = FirstChars(s.currentIndex, s.charIdx)

\* C24: while the lesson is unfinished and the current word has characters,
\* charIdx is smaller than their number and writtenChars is the first
\* charIdx characters of the word, on the tested and on the guided screen.
C24_WordCursorConsistent == CursorConsistent(ds) /\ CursorConsistent(gs)

(***************************************************************************)
(* Late results.                                                           *)
(***************************************************************************)
\* The oldest check in flight was started on another character than the
\* active one.
LateResult == pendingCheck # << >> /\ Cursor(Head(pendingCheck)) # Cursor(ds)

\* C25: a recognition result that settles after the active character has
\* changed leaves the attempt counter, the phase and the cursor of the
\* active character as they are and starts no advance of the cursor.
C25_LateResultDropped ==
    [][(LateResult /\ CheckSettle)
          => /\ ds'.charAttempts = ds.charAttempts
             /\ ds'.errorPhase = ds.errorPhase
             /\ Cursor(ds') = Cursor(ds)
             /\ advanceTimers' = advanceTimers]_vars

(***************************************************************************)
(* The tracer's completion.                                                *)
(***************************************************************************)
\* The 400 ms timers of the mounted tracer that will call onComplete.
PendingCallbacks(timers) ==
    {i \in DOMAIN timers : timers[i].kind = "complete" /\ timers[i].live}

\* C26: the tracer the guided screen has mounted, which has no repeat, never
\* has two calls of its character-complete callback pending: it invokes the
\* callback at most once.
C26_CallbackAtMostOnce == Cardinality(PendingCallbacks(trTimers)) <= 1

\* C27: a mounted tracer with glyph data has its stroke index between 0 and
\* the number of strokes of the glyph, and at most that many committed
\* strokes.
C27_IndexWithinGlyph ==
    (TracerMounted /\ gs.charData # NoGlyph)
        => /\ 0 <= tr.currentStrokeIdx
           /\ tr.currentStrokeIdx <= totalStrokes(gs.charData)
           /\ Len(tr.drawnStrokes) <= totalStrokes(gs.charData)

\* C28: in tested mode completedWords lists the words passed so far, each
\* once and in lesson order, and currentIndex is the number of words passed,
\* or one less while the celebration of the last one still waits for its
\* done callback or the lesson is complete.
C28_EachWordOnce ==
    /\ \A k \in DOMAIN ds.completedWords : ds.completedWords[k] = k - 1
    /\ Len(ds.completedWords) <= totalItems
    /\ ds.currentIndex <= Len(ds.completedWords)
    /\ Len(ds.completedWords) <= ds.currentIndex + 1

(***************************************************************************)
(* Completion timers and the repeat.                                       *)
(***************************************************************************)
\* Every stroke of the glyph of the writing screen's tracer is accepted.
AllAccepted ==
    ws.charData # NoGlyph /\ wt.currentStrokeIdx >= totalStrokes(ws.charData)

\* The timer of the given kind that fires next belongs to the mounted tracer.
MountedDue(kind) ==
    \E i \in DOMAIN wtTimers :
        wtTimers[i].kind = kind /\ WritingDue(i) /\ wtTimers[i].live

\* C29: on the writing screen's tracer the celebration is shown, and the
\* character-complete callback is delivered for the mounted session, only
\* when every stroke of the session is accepted; after a repeat neither
\* happens before the strokes are accepted again.
C29_NoCompletionAfterRepeat ==
    [][/\ (~wt.showCelebration /\ wt'.showCelebration) => AllAccepted
       /\ (WritingCompleteTimer /\ MountedDue("complete")) => AllAccepted]_vars

(***************************************************************************)
(* The delayed clear of a flashed judgment.                                *)
(***************************************************************************)
\* C30: when the 1200 ms timer of a flashed judgment erases committed
\* strokes, an attempt at the character on screen has been judged incorrect
\* (its strokes are kept in lastAttemptPaths until the character changes):
\* the timer erases no strokes drawn for a later character.
C30_ClearOnlyJudgedStrokes ==
    [][ClearTimer => (ds.drawnPaths = << >> \/ ds.lastAttemptPaths # << >>)]_vars

=============================================================================
